---- MODULE Spec2Model ----
(***************************************************************************)
(* A model of equi7grid_lite.Equi7Grid (src/equi7grid_lite/main.py).       *)
(*                                                                         *)
(* Lengths are integers in the length unit of the projected coordinate     *)
(* systems.  A point also carries, per axis, an offset d in {-1, 0, 1}:    *)
(* the point's coordinate is  m + d * delta  for a fixed positive delta    *)
(* smaller than half of the rounding precision of create_grid (8 decimal   *)
(* places), so that rounding maps it to m.  Polygons are finite unions of  *)
(* closed axis-parallel rectangles with integer corners.  Strings that the *)
(* code formats or parses are sequences of one-character strings.          *)
(***************************************************************************)
EXTENDS Integers, Sequences, FiniteSets, TLC

VARIABLES
    min_grid_size,   \* self.min_grid_size
    max_grid_size,   \* self.max_grid_size
    zone_geometry_max_grids,  \* self.zone_geometry_max_grids: per zone, its
                     \* coarse grid
    zone_geometry,   \* self.zone_geometry : per zone, its boundary polygon
    zone_land,       \* self.zone_land     : per zone, its land polygon
    zone_crs,        \* self.zone_crs      : per zone, its projection
    zone_origin,     \* self.zone_origin   : per zone, its origin (lon, lat)
    call,            \* the last public method called, with its arguments
    outcome,         \* how that call ended: returned, or the exception
    result,          \* the rows of the frame it returned
    decoded,         \* the fields grid2lonlat extracted from its grid_id
    prev,            \* the lonlat2grid call whose id grid2lonlat was given
    pool             \* the worker pool of a grid2grid call under way

vars == <<min_grid_size, max_grid_size, zone_geometry_max_grids,
          zone_geometry, zone_land, zone_crs, zone_origin, call, outcome,
          result, decoded, prev, pool>>

----------------------------------------------------------------------------
(* Bounds of the model *)

\* create_grid and grid2grid are only called where they enumerate at most
\* this many squares
MaxTiles == 64
\* the levels passed to create_grid are -NegLevels .. MaxLevelArg
NegLevels == 1
MaxLevelArg == 10
\* grid2grid is given squares of edge 2560 * 2^k for k <= MaxK
MaxK == 2

----------------------------------------------------------------------------
(* Geometry: what the code asks of shapely / geopandas / pyproj *)

Box(x1, y1, x2, y2) == [minx |-> x1, miny |-> y1, maxx |-> x2, maxy |-> y2]

Min(S) == CHOOSE v \in S : \A w \in S : v <= w
Max(S) == CHOOSE v \in S : \A w \in S : v >= w

\* geometry.bounds of a non-empty union of rectangles
Bounds(geom) ==
    Box(Min({r.minx : r \in geom}), Min({r.miny : r \in geom}),
        Max({r.maxx : r \in geom}), Max({r.maxy : r \in geom}))

\* two closed rectangles share at least one point
BoxesIntersect(a, b) ==
    /\ a.minx <= b.maxx /\ b.minx <= a.maxx
    /\ a.miny <= b.maxy /\ b.miny <= a.maxy

\* box.intersects(geom), geom a union of rectangles
Intersects(box, geom) == \E r \in geom : BoxesIntersect(box, r)

\* polygon.intersection(polygon): the parts two unions of rectangles share
Intersection(geomA, geomB) ==
    { Box(Max({p[1].minx, p[2].minx}), Max({p[1].miny, p[2].miny}),
          Min({p[1].maxx, p[2].maxx}), Min({p[1].maxy, p[2].maxy})) :
        p \in { q \in geomA \X geomB : BoxesIntersect(q[1], q[2]) } }

\* m + d*delta >= c  and  m + d*delta <= c, for an integer c
GeqC(m, d, c) == m > c \/ (m = c /\ d >= 0)
LeqC(m, d, c) == m < c \/ (m = c /\ d <= 0)

\* point.intersects(geom): the point lies in the closed polygon
PointIntersects(p, geom) ==
    \E r \in geom :
        /\ GeqC(p.x, p.dx, r.minx) /\ LeqC(p.x, p.dx, r.maxx)
        /\ GeqC(p.y, p.dy, r.miny) /\ LeqC(p.y, p.dy, r.maxy)

\* to_crs(zone crs): geographic -> projected.  A projection is modelled by
\* the geographic position of its (0, 0); it is a bijection, a different one
\* for every zone, and ToCrs and ToLonLat of one zone are exact inverses
\* (the floating-point error of pyproj's round trip is not modelled).
ToCrs(crs, g) ==
    [x |-> g.lon - crs.lon, y |-> g.lat - crs.lat, dx |-> g.dlon, dy |-> g.dlat]

\* Transformer.from_crs(crs, "EPSG:4326").transform(x, y)
ToLonLat(crs, x, y) ==
    [lon |-> x + crs.lon, lat |-> y + crs.lat, dlon |-> 0, dlat |-> 0]

BoxToCrs(crs, b) ==
    Box(b.minx - crs.lon, b.miny - crs.lat, b.maxx - crs.lon, b.maxy - crs.lat)

----------------------------------------------------------------------------
(* The zone registry: load_grid() as read by __init__ *)

\* self.zone_names, in the order of the attributes AN .. AS
zone_names ==
    << <<"A","N">>, <<"N","A">>, <<"O","C">>, <<"S","A">>,
       <<"A","F">>, <<"E","U">>, <<"A","S">> >>

Zones == 1..Len(zone_names)

GeoPoint(lon, lat) == [lon |-> lon, lat |-> lat, dlon |-> 0, dlat |-> 0]

ShiftBox(b, s) == Box(b.minx + s, b.miny + s, b.maxx + s, b.maxy + s)

\* A registry of seven zones.  Neighbouring zones overlap (AN/NA, AF/EU), OC
\* is L-shaped, SA reaches into negative projected coordinates, the origin of
\* AF lies where AN and NA overlap, and AN and NA have origins at the same distance from the
\* points of the meridian lon = 9600.  s moves every boundary off the grid.
Registry(s) ==
    [ geometry |->
        << {ShiftBox(Box(0, 0, 10240, 5120), s)},
           {ShiftBox(Box(1000, 1000, 9000, 4000), s)},
           {ShiftBox(Box(500, 500, 6000, 2000), s),
            ShiftBox(Box(500, 2000, 2000, 6000), s)},
           {ShiftBox(Box(-3000, -3000, 3000, 2000), s)},
           {ShiftBox(Box(0, 0, 5120, 5120), s)},
           {ShiftBox(Box(100, 2000, 6000, 7000), s)},
           {ShiftBox(Box(2560, 2560, 5120, 5120), s)} >>,
      land |->
        << {Box(1000, 1000, 3000, 3000)},
           {Box(1000, 1000, 9000, 4000)},
           {Box(5000, 600, 5500, 900)},
           {Box(-100, -100, 100, 100)},
           {},
           {Box(3000, 3000, 4000, 9000)},
           {Box(2560, 2560, 2600, 2600)} >>,
      crs |->
        << GeoPoint(0, 0), GeoPoint(8000, 0), GeoPoint(18000, 0),
           GeoPoint(3000, 10000), GeoPoint(7000, 7000), GeoPoint(11000, 6000),
           GeoPoint(17500, 7100) >>,
      origin |->
        << GeoPoint(5120, 2560), GeoPoint(14080, 2560), GeoPoint(21000, 3000),
           GeoPoint(3000, 10000), GeoPoint(9600, 2000), GeoPoint(14000, 10000),
           GeoPoint(21340, 10940) >> ]

Registries == { Registry(0), Registry(640) }

\* the values of min_grid_size the engine is constructed with
MinGridSizes == {2560, 625000}

----------------------------------------------------------------------------
(* Strings: str(), zfill(), int() and the f-strings of the code *)

DigitChars == <<"0", "1", "2", "3", "4", "5", "6", "7", "8", "9">>
UpperChars ==
    {"A", "B", "C", "D", "E", "F", "G", "H", "I", "J", "K", "L", "M",
     "N", "O", "P", "Q", "R", "S", "T", "U", "V", "W", "X", "Y", "Z"}
\* the lower-case letters that occur in the strings of the model
LowerChars == {"a", "e", "n", "x", "z"}

IsDigit(c) == \E i \in 1..10 : DigitChars[i] = c
IsUpper(c) == c \in UpperChars
\* \w of the re module: letters, digits and the underscore
IsWord(c) == IsDigit(c) \/ IsUpper(c) \/ c \in LowerChars \/ c = "_"

RECURSIVE NatStr(_)
\* str(n) for n >= 0
NatStr(n) ==
    IF n < 10 THEN <<DigitChars[n + 1]>>
    ELSE NatStr(n \div 10) \o <<DigitChars[(n % 10) + 1]>>

\* str(n)
IntStr(n) == IF n < 0 THEN <<"-">> \o NatStr(-n) ELSE NatStr(n)

RECURSIVE Zeros(_)
Zeros(k) == IF k <= 0 THEN <<>> ELSE <<"0">> \o Zeros(k - 1)

\* str.zfill(width): zeros go after a leading sign
ZFill(str, width) ==
    IF Len(str) >= width THEN str
    ELSE IF str[1] = "-"
         THEN <<"-">> \o Zeros(width - Len(str)) \o Tail(str)
         ELSE Zeros(width - Len(str)) \o str

DigitValue(c) == (CHOOSE i \in 1..10 : DigitChars[i] = c) - 1

RECURSIVE ParseInt(_)
\* int(str) of a non-empty string of digits
ParseInt(str) ==
    IF Len(str) = 1 THEN DigitValue(str[1])
    ELSE 10 * ParseInt(SubSeq(str, 1, Len(str) - 1)) + DigitValue(str[Len(str)])

\* int(a / b) for b > 0: the quotient truncated towards zero
IntDiv(a, b) == IF a >= 0 THEN a \div b ELSE -((-a) \div b)

\* a variant of CeilDiv: int(a / b) + 1, one step too many when b divides a
CeilDivPlusOne(a, b) == (a \div b) + 1

\* math.ceil(a / b) for b > 0
CeilDiv(a, b) == -((-a) \div b)

----------------------------------------------------------------------------
(* Construction: __init__ and create_init_grid *)

\* numerator: the coarsest grid level
Numerator == 2500000

RECURSIVE FloorLog2Ratio(_, _)
\* math.floor(math.log(n / d, 2)) for n >= d > 0: the largest k with
\* d * 2^k <= n
FloorLog2Ratio(n, d) == IF 2 * d > n THEN 0 ELSE 1 + FloorLog2Ratio(n, 2 * d)

\* xm = nx * max_grid_size: the corner of a coarse tile, counted from the
\* (0, 0) of the projection whatever the minimum of the bounds is
CoarseCorner(n, size, bound_min) == n * size

\* max_grid_size of create_init_grid
MaxGridSize(mgs) == mgs * 2^FloorLog2Ratio(Numerator, mgs)

\* the coarse grid of one zone: for ny in range(ny_tile): for nx in
\* range(nx_tile), the square whose bottom left corner is
\* (nx * max_grid_size, ny * max_grid_size)
CoarseTiles(geometry, land, name, mgs) ==
    LET max_grid_size_ == MaxGridSize(mgs)
        bound == Bounds(geometry)
        width == bound.maxx - bound.minx
        height == bound.maxy - bound.miny
        nx_tile == CeilDiv(width, max_grid_size_)
        ny_tile == CeilDiv(height, max_grid_size_)
    IN  [k \in 1..(nx_tile * ny_tile) |->
            LET ny == (k - 1) \div nx_tile
                nx == (k - 1) % nx_tile
                ym == CoarseCorner(ny, max_grid_size_, bound.miny)
                xm == CoarseCorner(nx, max_grid_size_, bound.minx)
                tile == Box(xm, ym, xm + max_grid_size_, ym + max_grid_size_)
            IN  [zone |-> name,
                 level |-> <<"Z">> \o IntStr(FloorLog2Ratio(Numerator, mgs)),
                 land |-> Intersects(tile, land),
                 geometry |-> tile]]

\* zone_containers of create_init_grid: the coarse grid of every zone
CreateInitGrid(geometries, lands, mgs) ==
    [zi \in Zones |->
        CoarseTiles(geometries[zi], lands[zi], zone_names[zi], mgs)]

\* how a call ended
Returned == [exc |-> "none", line |-> 0]
Raised(exc, line) == [exc |-> exc, line |-> line]

NoCall == [op |-> "none"]
NoDecoded == [matched |-> FALSE]
\* no pool exists: mp.Pool is made and closed within grid2grid
NoPool == [phase |-> "none"]

----------------------------------------------------------------------------
(* create_grid *)

NoMask == [kind |-> "none"]
PointMask(g, hasCrs) == [kind |-> "point", crs |-> hasCrs, point |-> g]
BoxMask(b, hasCrs) == [kind |-> "box", crs |-> hasCrs, box |-> b]

\* list.index: the position of a zone name, 0 when list.index would raise
ZoneIndex(zone) ==
    IF \E i \in Zones : zone_names[i] = zone
    THEN CHOOSE i \in Zones : zone_names[i] = zone
    ELSE 0

\* max_level as create_grid computes it
MaxLevel == FloorLog2Ratio(max_grid_size, min_grid_size)

\* grid_user_distance = min_grid_size * (2**level); 2**level is a fraction
\* for a negative level
GridUserDistance(level) ==
    IF level >= 0 THEN min_grid_size * 2^level
    ELSE min_grid_size \div 2^(-level)

\* the product is a whole number of length units
DistanceIsWhole(level) ==
    IF level >= 0 THEN TRUE ELSE min_grid_size % 2^(-level) = 0

\* zone_geometry.intersection(mask) and the WKT round trip with 8 decimals:
\* a coordinate m + d*delta becomes m, an integer stays what it is
MaskedGeometry(zone_index, mask) ==
    LET crs == zone_crs[zone_index]
        geom == zone_geometry[zone_index]
    IN  IF mask.kind = "point"
        THEN LET p == ToCrs(crs, mask.point)
             IN  IF PointIntersects(p, geom)
                 THEN {Box(p.x, p.y, p.x, p.y)}
                 ELSE {}
        ELSE Intersection(geom, {BoxToCrs(crs, mask.box)})

\* the zone geometry create_grid works on
WorkingGeometry(zone_index, mask) ==
    IF mask.kind = "none" THEN zone_geometry[zone_index]
    ELSE MaskedGeometry(zone_index, mask)

\* a variant of InitRounded: the box starts at the bounds of the geometry
InitRoundedNoSnap(v_min, d) == v_min

\* a variant of InitRounded: the remainder added instead of subtracted
InitRoundedPlus(v_min, d) == v_min + (v_min % d)

\* x_min - (x_min % d)
InitRounded(v_min, d) == v_min - (v_min % d)
\* a variant of LastRounded: the last coordinate rounded down like the first
LastRoundedNoStep(v_max, d) == v_max - (v_max % d)

\* x_max - (x_max % d) + d
LastRounded(v_max, d) == v_max - (v_max % d) + d

\* the snapped box and the tile counts of create_grid
Snap(geom, d) ==
    LET bbox_geo == Bounds(geom)
        x_init_rounded == InitRounded(bbox_geo.minx, d)
        y_init_rounded == InitRounded(bbox_geo.miny, d)
        x_last_rounded == LastRounded(bbox_geo.maxx, d)
        y_last_rounded == LastRounded(bbox_geo.maxy, d)
    IN  [x_init |-> x_init_rounded, y_init |-> y_init_rounded,
         nxtiles |-> IntDiv(x_last_rounded - x_init_rounded, d),
         nytiles |-> IntDiv(y_last_rounded - y_init_rounded, d)]

\* the number of (i, j) in range(nxtiles) x range(nytiles)
RangeProduct(nxtiles, nytiles) ==
    IF nxtiles > 0 /\ nytiles > 0 THEN nxtiles * nytiles ELSE 0

\* new_polys: for i in range(nxtiles): for j in range(nytiles)
NewPolys(sn, d) ==
    [k \in 1..RangeProduct(sn.nxtiles, sn.nytiles) |->
        LET i == (k - 1) \div sn.nytiles
            j == (k - 1) % sn.nytiles
            x1 == sn.x_init + i * d
            y1 == sn.y_init + j * d
        IN  Box(x1, y1, x1 + d, y1 + d)]

\* the rows of local_grid that intersect the zone geometry
FinalResult(new_polys, zone, level, land, geom) ==
    SelectSeq([k \in 1..Len(new_polys) |->
                  [zone |-> zone,
                   level |-> <<"Z">> \o IntStr(level),
                   land |-> Intersects(new_polys[k], land),
                   geometry |-> new_polys[k]]],
              LAMBDA row : Intersects(row.geometry, geom))

\* create_grid(level, zone, mask): how it ends and the rows it returns
CreateGrid(level, zone, mask) ==
    LET zone_index == ZoneIndex(zone) IN
    IF MaxLevel < level
    THEN [outcome |-> Raised("ValueError", 191), rows |-> <<>>]
    ELSE IF zone_index = 0
    THEN [outcome |-> Raised("ValueError", 196), rows |-> <<>>]
    ELSE IF mask.kind # "none" /\ ~mask.crs
    THEN [outcome |-> Raised("ValueError", 207), rows |-> <<>>]
    ELSE LET geom == WorkingGeometry(zone_index, mask) IN
         IF geom = {}
         \* the bounds of an empty geometry are not numbers
         THEN [outcome |-> Raised("ValueError", 243), rows |-> <<>>]
         ELSE LET d == GridUserDistance(level)
                  sn == Snap(geom, d)
              IN  [outcome |-> Returned,
                   rows |-> FinalResult(NewPolys(sn, d), zone, level,
                                        zone_land[zone_index], geom)]

\* the number of squares create_grid enumerates (0 when it raises first)
Enumerated(level, zone, mask) ==
    LET zone_index == ZoneIndex(zone) IN
    IF \/ MaxLevel < level
       \/ zone_index = 0
       \/ (mask.kind # "none" /\ ~mask.crs)
       \/ WorkingGeometry(zone_index, mask) = {}
    THEN 0
    ELSE LET sn == Snap(WorkingGeometry(zone_index, mask), GridUserDistance(level))
         IN  RangeProduct(sn.nxtiles, sn.nytiles)

----------------------------------------------------------------------------
(* Tile identifiers *)

\* a variant of CellStr: a field of exactly four digits
CellStrFixed4(v, distance) ==
    LET str == ZFill(IntStr(IntDiv(v, distance)), 4)
    IN  SubSeq(str, Len(str) - 3, Len(str))

\* str(int(v / distance)).zfill(4), as grid2grid computes cell_minx, cell_miny
CellStr(v, distance) == ZFill(IntStr(IntDiv(v, distance)), 4)

\* f"{region_code}{distance}_E{cell_minx}N{cell_miny}"
TileName(region_code, distance, cell_minx, cell_miny) ==
    region_code \o IntStr(distance) \o <<"_", "E">> \o cell_minx
        \o <<"N">> \o cell_miny

\* get_id(polygon, distance, zone_id): the identifier of a tile, from its
\* minimum corner
GetId(polygon, distance, zone_id) ==
    TileName(zone_id, distance, CellStr(polygon.minx, distance),
             CellStr(polygon.miny, distance))

RECURSIVE UppersEnd(_, _)
\* the position after the longest run of [A-Z] that starts at p
UppersEnd(str, p) ==
    IF p > Len(str) THEN p
    ELSE IF IsUpper(str[p]) THEN UppersEnd(str, p + 1) ELSE p

RECURSIVE DigitsEnd(_, _)
\* the position after the longest run of \d that starts at p
DigitsEnd(str, p) ==
    IF p > Len(str) THEN p
    ELSE IF IsDigit(str[p]) THEN DigitsEnd(str, p + 1) ELSE p

\* the groups of \b([A-Z]+)(\d+)_E(\d+)N(\d+) matched at position p.  Each
\* run is followed by a character outside its class, so the greedy runs are
\* the only way to match.
MatchAt(str, p) ==
    LET a == UppersEnd(str, p)
        b == DigitsEnd(str, a)
        c == DigitsEnd(str, b + 2)
        e == DigitsEnd(str, c + 1)
        boundary == IF p = 1 THEN TRUE ELSE ~IsWord(str[p - 1])
        sep1 == IF b + 1 <= Len(str)
                THEN str[b] = "_" /\ str[b + 1] = "E" ELSE FALSE
        sep2 == IF c <= Len(str) THEN str[c] = "N" ELSE FALSE
    IN  IF boundary /\ a > p /\ b > a /\ sep1 /\ c > b + 2 /\ sep2 /\ e > c + 1
        THEN [matched |-> TRUE,
              zone |-> SubSeq(str, p, a - 1),
              distance |-> ParseInt(SubSeq(str, a, b - 1)),
              nxtile |-> ParseInt(SubSeq(str, b + 2, c - 1)),
              nytile |-> ParseInt(SubSeq(str, c + 1, e - 1))]
        ELSE [matched |-> FALSE]

\* re_expr.search(grid_id) and the four groups read from it: the leftmost
\* match, anywhere in the string
Search(grid_id) ==
    LET starts == { p \in 1..Len(grid_id) : MatchAt(grid_id, p).matched }
    IN  IF starts = {} THEN [matched |-> FALSE]
        ELSE MatchAt(grid_id, Min(starts))

----------------------------------------------------------------------------
(* lonlat2grid *)

\* math.inf
MathInf == 2147483647

\* haversine_distance(lon, lat, lon_ref, lat_ref): the arc distance, here the
\* squared distance in the plane of the geographic coordinates
HaversineDistance(lon, lat, lon_ref, lat_ref) ==
    (lon - lon_ref) * (lon - lon_ref) + (lat - lat_ref) * (lat - lat_ref)

\* condition: the point, projected into the zone, intersects its boundary
Condition(g, index) ==
    PointIntersects(ToCrs(zone_crs[index], g), zone_geometry[index])

\* a variant of Closer: a later zone at the same distance replaces the first
CloserOrEqual(arc_distance, haversine_distance_min) ==
    arc_distance <= haversine_distance_min

\* if arc_distance < haversine_distance_min
Closer(arc_distance, haversine_distance_min) ==
    arc_distance < haversine_distance_min

RECURSIVE ZoneSearch(_, _, _, _)
\* the loop over the zones, from zone `index` on; best_index = 0 stands for
\* the name best_index not being bound
ZoneSearch(g, index, haversine_distance_min, best_index) ==
    IF index > Len(zone_names) THEN best_index
    ELSE IF Condition(g, index)
    THEN LET arc_distance ==
                 HaversineDistance(g.lon, g.lat, zone_origin[index].lon,
                                   zone_origin[index].lat)
         IN  IF Closer(arc_distance, haversine_distance_min)
             THEN ZoneSearch(g, index + 1, arc_distance, index)
             ELSE ZoneSearch(g, index + 1, haversine_distance_min, best_index)
    ELSE ZoneSearch(g, index + 1, haversine_distance_min, best_index)

\* the columns lonlat2grid inserts into every row of q
WithColumns(rows, q_id, x, y, lonlat) ==
    [k \in 1..Len(rows) |->
        [id |-> q_id, lon |-> lonlat.lon, lat |-> lonlat.lat, x |-> x, y |-> y,
         zone |-> rows[k].zone, level |-> rows[k].level,
         land |-> rows[k].land, geometry |-> rows[k].geometry]]

\* lonlat2grid(lon, lat, centroid)
LonLat2Grid(g, centroid) ==
    LET best_index == ZoneSearch(g, 1, MathInf, 0) IN
    IF best_index = 0
    THEN [outcome |-> Raised("UnboundLocalError", 322), rows |-> <<>>]
    ELSE
    LET name == zone_names[best_index]
        q == CreateGrid(0, name, PointMask(g, TRUE))
    IN  IF q.outcome # Returned THEN q
        ELSE IF Len(q.rows) = 0
        THEN [outcome |-> Raised("IndexError", 328), rows |-> <<>>]
        ELSE
        LET first == q.rows[1].geometry
            q_id == GetId(first, min_grid_size, name)
            x == IF centroid THEN (first.minx + first.maxx) \div 2 ELSE first.minx
            y == IF centroid THEN (first.miny + first.maxy) \div 2 ELSE first.miny
        IN  [outcome |-> Returned,
             rows |-> WithColumns(q.rows, q_id, x, y,
                                  ToLonLat(zone_crs[best_index], x, y))]

----------------------------------------------------------------------------
(* grid2lonlat *)

\* a variant of TileCoordinate: nxtile + 0.5 * distance
TileCoordinateNoParens(ntile, distance, centroid) ==
    IF centroid THEN ntile + distance \div 2 ELSE ntile * distance

\* (nxtile + 0.5) * distance, or nxtile * distance
TileCoordinate(ntile, distance, centroid) ==
    IF centroid THEN ntile * distance + distance \div 2 ELSE ntile * distance

\* grid2lonlat(grid_id, centroid)
Grid2LonLat(grid_id, centroid) ==
    LET m == Search(grid_id) IN
    IF ~m.matched
    \* re_expr.search(grid_id) is None
    THEN [outcome |-> Raised("AttributeError", 366), rows |-> <<>>]
    ELSE IF ZoneIndex(m.zone) = 0
    THEN [outcome |-> Raised("ValueError", 380), rows |-> <<>>]
    ELSE LET x == TileCoordinate(m.nxtile, m.distance, centroid)
             y == TileCoordinate(m.nytile, m.distance, centroid)
         IN  LonLat2Grid(ToLonLat(zone_crs[ZoneIndex(m.zone)], x, y), centroid)

----------------------------------------------------------------------------
(* grid2grid *)

\* x - distance // 2 .. x + distance // 2 around the centre (x, y)
CellBox(x, y, distance) ==
    Box(x - distance \div 2, y - distance \div 2,
        x + distance \div 2, y + distance \div 2)

\* the dataset of grid2grid before its land column: the i-th column of cells
\* after the (i-1)-th, as pd.concat(grids, ignore_index=True) orders them
Dataset(poly, region_code) ==
    LET distance == min_grid_size
        x_steps == CeilDiv(poly.maxx - poly.minx, distance)
        y_steps == CeilDiv(poly.maxy - poly.miny, distance)
        zi == ZoneIndex(region_code)
    IN  [k \in 1..(x_steps * y_steps) |->
            LET i == (k - 1) \div y_steps
                j == (k - 1) % y_steps
                x == poly.minx + i * distance + distance \div 2
                y == poly.miny + j * distance + distance \div 2
                lonlat == ToLonLat(zone_crs[zi], x, y)
                tile == CellBox(x, y, distance)
            IN  [id |-> TileName(region_code, distance,
                                 CellStr(x, distance), CellStr(y, distance)),
                 x |-> x, y |-> y, lon |-> lonlat.lon, lat |-> lonlat.lat,
                 zone |-> region_code, geometry |-> tile]]

\* dataset["land"] = flags: the k-th flag goes to the k-th row
WithLand(dataset, flags) ==
    [k \in 1..Len(dataset) |->
        [id |-> dataset[k].id, x |-> dataset[k].x, y |-> dataset[k].y,
         lon |-> dataset[k].lon, lat |-> dataset[k].lat,
         zone |-> dataset[k].zone, geometry |-> dataset[k].geometry,
         land |-> flags[k]]]

\* grid2grid(poly, region_code) as one step: the rows of the dataset with the
\* land flags pool.starmap returns when every test is done
Grid2Grid(poly, region_code) ==
    LET dataset == Dataset(poly, region_code)
        land == zone_land[ZoneIndex(region_code)]
    IN  WithLand(dataset,
                 [k \in 1..Len(dataset) |-> Intersects(dataset[k].geometry, land)])

----------------------------------------------------------------------------
(* Inputs *)

Levels == (0 - NegLevels)..MaxLevelArg

\* the points the methods are called with: each base point, and the points
\* less than the rounding precision away from it
BasePoints ==
    { <<9600, 2560>>, <<9500, 2560>>, <<9700, 2560>>, <<2000, 2560>>,
      <<2560, 2560>>, <<5120, 1000>>, <<0, 0>>, <<11500, 9000>>,
      <<8000, 8000>>, <<9000, 1000>>, <<19000, 5000>>, <<22000, 4000>>,
      <<3000, 10000>>, <<20060, 9660>>, <<21000, 10000>>, <<24500, 300>>,
      <<6500, 6000>>, <<13000, 1700>>, <<700, 700>>, <<10400, 2000>> }

GeoPoints ==
    { [lon |-> b[1], lat |-> b[2], dlon |-> dlon, dlat |-> dlat] :
        b \in BasePoints, dlon \in {-1, 0, 1}, dlat \in {-1, 0, 1} }

MaskBoxes ==
    { Box(9000, 1000, 12000, 3000), Box(0, 0, 2560, 2560),
      Box(23000, 0, 24500, 400), Box(7000, 7000, 12120, 12120) }

Masks ==
    {NoMask}
    \cup { PointMask(g, TRUE) : g \in { q \in GeoPoints : q.dlat = 0 } }
    \cup { BoxMask(b, TRUE) : b \in MaskBoxes }
    \cup { PointMask(GeoPoint(2560, 2560), FALSE),
           BoxMask(Box(0, 0, 2560, 2560), FALSE) }

\* the fields identifiers are made of
IdEdges == {16, 2560, 100000}
IdTiles == {0, 1, 9999, 10000}

\* identifiers in the canonical format, zero-padded to four digits
CanonicalIds ==
    { TileName(zone_names[zi], e, ZFill(NatStr(nx), 4), ZFill(NatStr(ny), 4)) :
        zi \in Zones, e \in IdEdges, nx \in IdTiles, ny \in IdTiles }

\* other strings handed to grid2lonlat
OtherIds ==
    { <<>>,
      <<"A","F","2","5","6","0">>,
      <<" ","A","N","2","5","6","0","_","E","0","0","0","1","N","0","0","0","1">>,
      <<"A","N","2","5","6","0","_","E","0","0","0","1","N","0","0","0","1","x","z">>,
      <<"-","A","N","2","5","6","0","_","E","1","N","1">>,
      <<"x","A","N","2","5","6","0","_","E","0","0","0","1","N","0","0","0","1">>,
      <<"Z","Z","2","5","6","0","_","E","0","0","0","1","N","0","0","0","1">>,
      <<"X","A","N","2","5","6","0","_","E","1","N","1">>,
      <<"A","N","2","5","6","0","_","E","-","0","0","1","N","0","0","0","1">>,
      <<"a","n","2","5","6","0","_","E","0","0","0","1","N","0","0","0","1">>,
      <<"A","N","0","_","E","0","0","0","1","N","0","0","0","1">>,
      <<"A","N","2","5","6","0","_","E","1","N","1">>,
      <<"A","N","2","5","6","0","_","E","0","0","0","1","N">>,
      <<"A","N","2","5","6","0","E","0","0","0","1","N","0","0","0","1">> }

GridIds == CanonicalIds \cup OtherIds

\* the polygons handed to grid2grid: grid-aligned squares of edge
\* 2560 * 2^k, and boxes that are neither square nor aligned
SquareCorners ==
    { <<0, 0>>, <<2560, 5120>>, <<25600000, 0>>, <<25597440, 25600000>>,
      <<-2560, -5120>> }

Polys ==
    { Box(c[1], c[2], c[1] + 2560 * 2^k, c[2] + 2560 * 2^k) :
        c \in SquareCorners, k \in 0..MaxK }
    \cup { Box(100, 100, 3000, 2700), Box(0, 0, 7680, 2560),
           Box(-100, 2560, 2560, 5120) }

----------------------------------------------------------------------------
(* The state machine *)

Init ==
    /\ min_grid_size \in MinGridSizes
    /\ max_grid_size = MaxGridSize(min_grid_size)
    /\ \E r \in Registries :
          /\ zone_geometry = r.geometry
          /\ zone_land = r.land
          /\ zone_crs = r.crs
          /\ zone_origin = r.origin
          /\ zone_geometry_max_grids
                = CreateInitGrid(r.geometry, r.land, min_grid_size)
    /\ call = NoCall
    /\ outcome = Returned
    /\ result = <<>>
    /\ decoded = NoDecoded
    /\ prev = NoCall
    /\ pool = NoPool

Registry_unchanged ==
    UNCHANGED <<min_grid_size, max_grid_size, zone_geometry_max_grids,
                zone_geometry, zone_land, zone_crs, zone_origin>>

\* no call is under way: the caller has taken the last result
Idle == call = NoCall

\* a call of create_grid
CreateGridCall ==
    \E level \in Levels, zi \in Zones, mask \in Masks :
        /\ Idle
        /\ DistanceIsWhole(level)
        /\ Enumerated(level, zone_names[zi], mask) <= MaxTiles
        /\ LET r == CreateGrid(level, zone_names[zi], mask)
           IN  /\ call' = [op |-> "create_grid", level |-> level,
                           zone |-> zone_names[zi], mask |-> mask]
               /\ outcome' = r.outcome
               /\ result' = r.rows
        /\ decoded' = NoDecoded
        /\ prev' = NoCall
        /\ pool' = pool
        /\ Registry_unchanged

\* a call of lonlat2grid
LonLat2GridCall ==
    \E g \in GeoPoints, centroid \in BOOLEAN :
        /\ Idle
        /\ centroid => min_grid_size % 2 = 0
        /\ LET r == LonLat2Grid(g, centroid)
           IN  /\ call' = [op |-> "lonlat2grid", point |-> g,
                           centroid |-> centroid]
               /\ outcome' = r.outcome
               /\ result' = r.rows
        /\ decoded' = NoDecoded
        /\ prev' = NoCall
        /\ pool' = pool
        /\ Registry_unchanged

\* the half of an odd distance is no whole number of length units
HalvesAreWhole(grid_id, centroid) ==
    IF centroid /\ Search(grid_id).matched
    THEN Search(grid_id).distance % 2 = 0 /\ min_grid_size % 2 = 0
    ELSE TRUE

\* a call of grid2lonlat with a string of the caller
Grid2LonLatCall ==
    \E grid_id \in GridIds, centroid \in BOOLEAN :
        /\ Idle
        /\ HalvesAreWhole(grid_id, centroid)
        /\ LET r == Grid2LonLat(grid_id, centroid)
           IN  /\ call' = [op |-> "grid2lonlat", grid_id |-> grid_id,
                           centroid |-> centroid]
               /\ outcome' = r.outcome
               /\ result' = r.rows
        /\ decoded' = Search(grid_id)
        /\ prev' = NoCall
        /\ pool' = pool
        /\ Registry_unchanged

\* a call of grid2lonlat with the id lonlat2grid has just returned
Grid2LonLatOfTile ==
    /\ call.op = "lonlat2grid"
    /\ outcome = Returned
    /\ LET grid_id == result[1].id
           r == Grid2LonLat(grid_id, call.centroid)
       IN  /\ HalvesAreWhole(grid_id, call.centroid)
           /\ call' = [op |-> "grid2lonlat", grid_id |-> grid_id,
                       centroid |-> call.centroid]
           /\ outcome' = r.outcome
           /\ result' = r.rows
           /\ decoded' = Search(grid_id)
    /\ prev' = [op |-> "lonlat2grid", point |-> call.point,
                centroid |-> call.centroid, rows |-> result]
    /\ pool' = pool
    /\ Registry_unchanged

\* a call of grid2grid
Grid2GridCall ==
    \E poly \in Polys, zi \in Zones :
        /\ Idle
        /\ CeilDiv(poly.maxx - poly.minx, min_grid_size)
             * CeilDiv(poly.maxy - poly.miny, min_grid_size) <= MaxTiles
        /\ call' = [op |-> "grid2grid", poly |-> poly,
                    region_code |-> zone_names[zi]]
        /\ outcome' = Returned
        /\ result' = Grid2Grid(poly, zone_names[zi])
        /\ decoded' = NoDecoded
        /\ prev' = NoCall
        /\ pool' = pool
        /\ Registry_unchanged

\* the caller takes the result (or the exception) of the call
Return ==
    /\ ~Idle
    /\ call' = NoCall
    /\ outcome' = Returned
    /\ result' = <<>>
    /\ decoded' = NoDecoded
    /\ prev' = NoCall
    /\ pool' = NoPool
    /\ Registry_unchanged

Next ==
    \/ CreateGridCall
    \/ LonLat2GridCall
    \/ Grid2LonLatCall
    \/ Grid2LonLatOfTile
    \/ Grid2GridCall
    \/ Return

Spec == Init /\ [][Next]_vars

----------------------------------------------------------------------------
(* grid2grid step by step: the worker pool of lines 493-500 *)

\* mp.cpu_count(): the number of worker processes of the pool
PoolSize == 2
\* the pool is followed for calls that submit at most this many tests
MaxPoolTasks == 4

Workers == 1..PoolSize

\* a slot of the result list that no result has been put into yet; a slot
\* that holds the result v is <<v>>
Unset == <<>>

\* intersects_func(geometry, land): the land-intersection test of one tile
IntersectsFunc(geometry, land) == Intersects(geometry, land)

\* a variant of Collect: the result goes to the first free slot, so that the
\* list is in the order in which the results arrive
CollectInArrival(slots, i, v) ==
    LET free == Min({ k \in 1..Len(slots) : slots[k] = Unset })
    IN  [slots EXCEPT ![free] = <<v>>]

\* the result handler of starmap: the result of the i-th task goes to the
\* i-th slot of the list starmap returns
Collect(slots, i, v) == [slots EXCEPT ![i] = <<v>>]

\* the values of min_grid_size the engine of grid2grid is constructed with
FineGridSizes == {5, 2560, 2561, 625000}

\* the polygons handed to grid2grid
FinePolys ==
    Polys \cup { Box(0, 0, 10, 10), Box(3, 4, 14, 9), Box(-5, 0, 5, 5) }

\* the engine as constructed with any of FineGridSizes
PoolInit ==
    /\ min_grid_size \in FineGridSizes
    /\ max_grid_size = MaxGridSize(min_grid_size)
    /\ \E r \in Registries :
          /\ zone_geometry = r.geometry
          /\ zone_land = r.land
          /\ zone_crs = r.crs
          /\ zone_origin = r.origin
          /\ zone_geometry_max_grids
                = CreateInitGrid(r.geometry, r.land, min_grid_size)
    /\ call = NoCall
    /\ outcome = Returned
    /\ result = <<>>
    /\ decoded = NoDecoded
    /\ prev = NoCall
    /\ pool = NoPool

Call_unchanged == UNCHANGED <<call, outcome, result, decoded, prev>>

\* grid2grid up to the call of pool.starmap: the dataset is built and one
\* test per row of dataset["geometry"] is handed to the pool.  `reordered`
\* records whether a result has arrived after the result of a later task.
Grid2GridSubmit ==
    \E poly \in FinePolys, zi \in Zones :
        /\ Idle
        /\ CeilDiv(poly.maxx - poly.minx, min_grid_size)
             * CeilDiv(poly.maxy - poly.miny, min_grid_size) <= MaxPoolTasks
        /\ call' = [op |-> "grid2grid", poly |-> poly,
                    region_code |-> zone_names[zi]]
        /\ LET dataset == Dataset(poly, zone_names[zi])
           IN  pool' = [phase |-> "map",
                        dataset |-> dataset,
                        land |-> zone_land[zi],
                        pending |-> 1..Len(dataset),
                        running |-> [w \in Workers |-> 0],
                        outqueue |-> <<>>,
                        slots |-> [k \in 1..Len(dataset) |-> Unset],
                        reordered |-> FALSE]
        /\ UNCHANGED <<outcome, result, decoded, prev>>
        /\ Registry_unchanged

\* an idle worker takes one of the tests that wait
WorkerStart ==
    \E w \in Workers :
        /\ pool.phase = "map"
        /\ pool.running[w] = 0
        /\ \E i \in pool.pending :
              pool' = [pool EXCEPT !.pending = @ \ {i}, !.running[w] = i]
        /\ Call_unchanged
        /\ Registry_unchanged

\* a worker finishes its test and sends the result, with the number of the
\* task, to the result handler
WorkerFinish ==
    \E w \in Workers :
        /\ pool.phase = "map"
        /\ pool.running[w] # 0
        /\ LET i == pool.running[w]
               v == IntersectsFunc(pool.dataset[i].geometry, pool.land)
           IN  pool' = [pool EXCEPT !.running[w] = 0,
                                    !.outqueue = Append(@, <<i, v>>)]
        /\ Call_unchanged
        /\ Registry_unchanged

\* the result handler takes the next result that has arrived
HandleResult ==
    /\ pool.phase = "map"
    /\ pool.outqueue # <<>>
    /\ LET i == Head(pool.outqueue)[1]
           v == Head(pool.outqueue)[2]
       IN  pool' = [pool EXCEPT
                       !.outqueue = Tail(@),
                       !.slots = Collect(@, i, v),
                       !.reordered = @ \/ \E k \in (i + 1)..Len(pool.slots) :
                                                pool.slots[k] # Unset]
    /\ Call_unchanged
    /\ Registry_unchanged

\* every result is in: starmap returns the list, grid2grid stores it as the
\* land column and returns the dataset
Grid2GridJoin ==
    /\ pool.phase = "map"
    /\ \A k \in 1..Len(pool.slots) : pool.slots[k] # Unset
    /\ pool' = [pool EXCEPT !.phase = "done"]
    /\ outcome' = Returned
    /\ result' = WithLand(pool.dataset,
                          [k \in 1..Len(pool.slots) |-> pool.slots[k][1]])
    /\ UNCHANGED <<call, decoded, prev>>
    /\ Registry_unchanged

\* the caller takes the dataset
PoolReturn ==
    /\ pool.phase = "done"
    /\ Return

PoolNext ==
    \/ Grid2GridSubmit
    \/ WorkerStart
    \/ WorkerFinish
    \/ HandleResult
    \/ Grid2GridJoin
    \/ PoolReturn

PoolSpec == PoolInit /\ [][PoolNext]_vars

----------------------------------------------------------------------------
(* Construction step by step: __init__ with create_init_grid *)

\* the zone boundaries are those of Registry(0) times these factors
MaxScale == 400
Scales == {1, MaxScale \div 2, MaxScale}

\* and moved by these offsets in both axes
Offsets == {-1000000, -3000, 0, 640, 1310720, 2000000}

ScaleBox(b, f, s) ==
    Box(b.minx * f + s, b.miny * f + s, b.maxx * f + s, b.maxy * f + s)

\* a registry whose zones are up to a few coarse tiles wide and start on
\* either side of the (0, 0) of their projections
WideRegistry(f, s) ==
    [ geometry |->
        [zi \in Zones |-> { ScaleBox(b, f, s) : b \in Registry(0).geometry[zi] }],
      land |->
        [zi \in Zones |-> { ScaleBox(b, f, s) : b \in Registry(0).land[zi] }],
      crs |-> Registry(0).crs,
      origin |-> Registry(0).origin ]

WideRegistries == { WideRegistry(f, s) : f \in Scales, s \in Offsets }

\* the values of min_grid_size the engine is constructed with
ConstructGridSizes == {2560, 2561, 625000}

\* __init__ has been entered: min_grid_size and the zone metadata are there,
\* the coarse grids and max_grid_size are not
PreInit ==
    /\ min_grid_size \in ConstructGridSizes
    /\ max_grid_size = 0
    /\ zone_geometry_max_grids = <<>>
    /\ \E r \in WideRegistries :
          /\ zone_geometry = r.geometry
          /\ zone_land = r.land
          /\ zone_crs = r.crs
          /\ zone_origin = r.origin
    /\ call = NoCall
    /\ outcome = Returned
    /\ result = <<>>
    /\ decoded = NoDecoded
    /\ prev = NoCall
    /\ pool = NoPool

\* self.zone_geometry_max_grids, self.max_grid_size = self.create_init_grid()
Construct ==
    /\ max_grid_size = 0
    /\ max_grid_size' = MaxGridSize(min_grid_size)
    /\ zone_geometry_max_grids'
          = CreateInitGrid(zone_geometry, zone_land, min_grid_size)
    /\ UNCHANGED <<min_grid_size, zone_geometry, zone_land, zone_crs,
                   zone_origin, call, outcome, result, decoded, prev, pool>>

ConstructNext == Construct

ConstructSpec == PreInit /\ [][ConstructNext]_vars

----------------------------------------------------------------------------
(* Claims about create_grid *)

\* create_grid returned, and was given a level the specification allows
GridReturned ==
    /\ call.op = "create_grid"
    /\ outcome = Returned
    /\ call.level >= 0

\* box a lies within box b
Inside(a, b) ==
    /\ b.minx <= a.minx /\ a.maxx <= b.maxx
    /\ b.miny <= a.miny /\ a.maxy <= b.maxy

\* the interiors of two boxes share a point
InteriorsOverlap(a, b) ==
    /\ a.minx < b.maxx /\ b.minx < a.maxx
    /\ a.miny < b.maxy /\ b.miny < a.maxy

\* C1: every tile create_grid returns for a level in 0..max_level, with or
\* without a mask, is a square of edge min_grid_size * 2^level whose four
\* corner coordinates are whole multiples of that edge, counted from the
\* (0, 0) of the zone's projection.
C1_TilesOnLattice ==
    GridReturned =>
        LET edge == min_grid_size * 2^(call.level)
        IN  \A k \in 1..Len(result) :
                LET g == result[k].geometry
                IN  /\ g.maxx - g.minx = edge
                    /\ g.maxy - g.miny = edge
                    /\ g.minx % edge = 0 /\ g.maxx % edge = 0
                    /\ g.miny % edge = 0 /\ g.maxy % edge = 0

\* a grid of several tiles, clipped to a mask, over a working geometry whose
\* bounding box starts off the lattice
C1_Witness ==
    /\ GridReturned
    /\ call.level >= 1
    /\ call.mask.kind = "box"
    /\ Len(result) >= 2
    /\ LET b == Bounds(WorkingGeometry(ZoneIndex(call.zone), call.mask))
           edge == min_grid_size * 2^(call.level)
       IN  b.minx % edge # 0 /\ b.miny % edge # 0

\* create_grid returned the level-(L+1) grid of a zone, without a mask
CoarseReturned ==
    /\ GridReturned
    /\ call.level >= 1
    /\ call.mask = NoMask

\* the tiles create_grid returns one level below the last call, no mask
FinerRows == CreateGrid(call.level - 1, call.zone, NoMask).rows

\* the level-L tiles returned that lie within a level-(L+1) tile
ChildrenOf(tile, finer) ==
    { k \in 1..Len(finer) : Inside(finer[k].geometry, tile.geometry) }

\* C2 as claimed: the footprint of every level-(L+1) tile returned is the
\* union of exactly four level-L tiles returned for the same zone (both
\* grids made without a mask), and the level-L tiles do not overlap.
C2_FourReturnedChildren ==
    CoarseReturned =>
        /\ \A k \in 1..Len(result) :
               Cardinality(ChildrenOf(result[k], FinerRows)) = 4
        /\ \A i, j \in 1..Len(FinerRows) :
               i # j => ~InteriorsOverlap(FinerRows[i].geometry,
                                          FinerRows[j].geometry)

\* C2 as amended: every level-(L+1) tile returned is the union of four
\* squares of the level-L lattice, of which at least one (not always all
\* four) is returned at level L; every level-L tile returned lies within
\* exactly one level-(L+1) tile returned; and the level-L tiles returned do
\* not overlap.
C2_Nesting ==
    CoarseReturned =>
        LET fine == min_grid_size * 2^(call.level - 1)
        IN  /\ \A k \in 1..Len(result) :
                   LET g == result[k].geometry
                       n == Cardinality(ChildrenOf(result[k], FinerRows))
                   IN  /\ g.maxx - g.minx = 2 * fine
                       /\ g.maxy - g.miny = 2 * fine
                       /\ g.minx % fine = 0 /\ g.miny % fine = 0
                       /\ 1 <= n /\ n <= 4
            /\ \A i \in 1..Len(FinerRows) :
                   /\ Cardinality({ k \in 1..Len(result) :
                          Inside(FinerRows[i].geometry, result[k].geometry) }) = 1
                   /\ FinerRows[i].geometry.maxx - FinerRows[i].geometry.minx = fine
                   /\ FinerRows[i].geometry.maxy - FinerRows[i].geometry.miny = fine
            /\ \A i, j \in 1..Len(FinerRows) :
                   i # j => ~InteriorsOverlap(FinerRows[i].geometry,
                                              FinerRows[j].geometry)

\* an L-shaped zone: a level-(L+1) tile is returned with fewer than four of
\* its quarters returned at level L, next to one with all four
C2_Witness ==
    /\ CoarseReturned
    /\ Len(FinerRows) > Len(result)
    /\ \E k \in 1..Len(result) :
           Cardinality(ChildrenOf(result[k], FinerRows)) < 4
    /\ \E k \in 1..Len(result) :
           Cardinality(ChildrenOf(result[k], FinerRows)) = 4

\* C6 as claimed: create_grid raises its level error exactly for the levels
\* outside 0..max_level, max_level = floor(log2(max_grid_size/min_grid_size)).
C6_LevelAcceptedIffInRange ==
    call.op = "create_grid" =>
        ( outcome = Raised("ValueError", 191)
            <=> ~(0 <= call.level /\ call.level <= MaxLevel) )

----------------------------------------------------------------------------
(* Claims about the tile identifiers *)

\* C3: decoding the identifier "{ZONE}{EDGE}_E{nx:04d}N{ny:04d}" of any of
\* the seven zone codes, any positive edge and any nx, ny >= 0 (of more than
\* four digits too) gives back the same zone, edge, nx and ny: for the
\* identifiers handed to grid2lonlat, and for those grid2grid writes.
C3_CodecRoundTrip ==
    /\ call.op = "grid2lonlat" =>
           \A zi \in Zones, e \in IdEdges, nx \in IdTiles, ny \in IdTiles :
               call.grid_id = TileName(zone_names[zi], e, ZFill(NatStr(nx), 4),
                                       ZFill(NatStr(ny), 4))
                 => decoded = [matched |-> TRUE, zone |-> zone_names[zi],
                               distance |-> e, nxtile |-> nx, nytile |-> ny]
    /\ call.op = "grid2grid" =>
           \A k \in 1..Len(result) :
               LET nx == IntDiv(result[k].x, min_grid_size)
                   ny == IntDiv(result[k].y, min_grid_size)
               IN  (result[k].x >= 0 /\ result[k].y >= 0) =>
                       Search(result[k].id) =
                           [matched |-> TRUE, zone |-> call.region_code,
                            distance |-> min_grid_size,
                            nxtile |-> nx, nytile |-> ny]

\* grid2lonlat has decoded an identifier with a five-digit and a four-digit
\* tile number and a six-digit edge
C3_Witness ==
    /\ call.op = "grid2lonlat"
    /\ call.grid_id \in CanonicalIds
    /\ decoded.matched
    /\ decoded.distance = 100000
    /\ decoded.nxtile = 10000
    /\ decoded.nytile = 9999

\* a string of digits, from position a to position b of str
AllDigits(str, a, b) == a <= b /\ \A i \in a..b : IsDigit(str[i])

\* the whole string has the form {ZONE}{EDGE}_E{NX}N{NY}, ZONE one of the
\* seven codes
Canonical(str) ==
    \E a, b, c \in 1..Len(str) :
        /\ \E zi \in Zones : SubSeq(str, 1, a) = zone_names[zi]
        /\ AllDigits(str, a + 1, b)
        /\ b + 2 <= Len(str) /\ str[b + 1] = "_" /\ str[b + 2] = "E"
        /\ AllDigits(str, b + 3, c)
        /\ c + 1 <= Len(str) /\ str[c + 1] = "N"
        /\ AllDigits(str, c + 2, Len(str))

\* C7 as claimed: when the whole string does not have the canonical form, or
\* its zone code is none of the seven, decoding fails (here: with any
\* exception raised while the identifier is decoded) and grid2lonlat
\* returns no tile metadata.
C7_MalformedIdRejected ==
    (call.op = "grid2lonlat" /\ ~Canonical(call.grid_id)) =>
        /\ outcome.exc # "none"
        /\ outcome.line \in 364..380
        /\ result = <<>>

----------------------------------------------------------------------------
(* Claims about lonlat2grid *)

\* the zones whose boundary contains the point
Containing(g) == { zi \in Zones : Condition(g, zi) }

\* the distance from the point to the origin of a zone
OriginDistance(g, zi) ==
    HaversineDistance(g.lon, g.lat, zone_origin[zi].lon, zone_origin[zi].lat)

\* lonlat2grid was called with a point that some zone contains
CoveredPointResolved ==
    /\ call.op = "lonlat2grid"
    /\ Containing(call.point) # {}

\* C4 as claimed: for a point inside the winning zone, on a grid line or at
\* a tile corner too, the level-0 grid masked by the point has exactly one
\* tile, that tile contains the point, and lonlat2grid returns it.
C4_OneTileContainingPoint ==
    CoveredPointResolved =>
        /\ outcome = Returned
        /\ Len(result) = 1
        /\ PointIntersects(ToCrs(zone_crs[ZoneIndex(result[1].zone)], call.point),
                           {result[1].geometry})

\* C4 as amended: the level-0 grid masked by the point has exactly one tile,
\* lonlat2grid returns its metadata, and the tile contains the point as
\* rounded to 8 decimal places (so the point itself is within 1e-8 length
\* units of the tile).
C4_OneTileContainingRoundedPoint ==
    CoveredPointResolved =>
        /\ outcome = Returned
        /\ Len(result) = 1
        /\ LET zi == ZoneIndex(result[1].zone)
               p == ToCrs(zone_crs[zi], call.point)
               g == result[1].geometry
               grid == CreateGrid(0, result[1].zone, PointMask(call.point, TRUE))
           IN  /\ g.minx <= p.x /\ p.x <= g.maxx
               /\ g.miny <= p.y /\ p.y <= g.maxy
               /\ grid.outcome = Returned
               /\ Len(grid.rows) = 1
               /\ grid.rows[1].geometry = g

\* a point just below a tile corner in both axes, resolved to one tile
C4_Witness ==
    /\ CoveredPointResolved
    /\ outcome = Returned
    /\ Len(result) = 1
    /\ call.point.dlon = -1 /\ call.point.dlat = -1
    /\ LET p == ToCrs(zone_crs[ZoneIndex(result[1].zone)], call.point)
       IN  p.x % min_grid_size = 0 /\ p.y % min_grid_size = 0

\* C5 as claimed: for a point that no zone contains, lonlat2grid fails with
\* a PointNotCoveredError raised by a test of the search result; it never
\* goes on to use a zone index the search did not assign.
C5_ExplicitPointNotCovered ==
    (call.op = "lonlat2grid" /\ Containing(call.point) = {}) =>
        /\ outcome.exc = "PointNotCoveredError"
        /\ result = <<>>

\* C10: for a point inside one or more zones, lonlat2grid selects, among the
\* zones that contain the point, the one whose origin is nearest to the
\* point, and among several nearest ones the first in the order of the
\* zones; a zone that does not contain the point is never selected.
C10_NearestContainingZone ==
    CoveredPointResolved =>
        /\ outcome = Returned
        /\ Len(result) >= 1
        /\ LET sel == ZoneIndex(result[1].zone)
           IN  /\ sel \in Containing(call.point)
               /\ \A zi \in Containing(call.point) :
                      /\ OriginDistance(call.point, sel)
                             <= OriginDistance(call.point, zi)
                      /\ OriginDistance(call.point, sel)
                             = OriginDistance(call.point, zi) => sel <= zi

\* two zones contain the point at the same distance from their origins and
\* the first is selected, while the origin of a zone that does not contain
\* the point is nearer than both
C10_Witness ==
    /\ CoveredPointResolved
    /\ outcome = Returned
    /\ LET sel == ZoneIndex(result[1].zone)
       IN  /\ \E zi \in Containing(call.point) :
                  /\ zi > sel
                  /\ OriginDistance(call.point, sel)
                         = OriginDistance(call.point, zi)
           /\ \E zi \in Zones \ Containing(call.point) :
                  OriginDistance(call.point, zi)
                      < OriginDistance(call.point, sel)

\* grid2lonlat was given the id that lonlat2grid returned, in centroid mode
\* and with min_grid_size = 2560, for a point that lies in exactly one zone
TileIdResolved ==
    /\ call.op = "grid2lonlat"
    /\ prev.op = "lonlat2grid"
    /\ min_grid_size = 2560
    /\ prev.centroid
    /\ Cardinality(Containing(prev.point)) = 1

\* grid2lonlat reproduced the zone and the centroid of the tile
SameTile ==
    /\ outcome = Returned
    /\ Len(result) = 1
    /\ result[1].zone = prev.rows[1].zone
    /\ result[1].x = prev.rows[1].x /\ result[1].y = prev.rows[1].y
    /\ result[1].lon = prev.rows[1].lon /\ result[1].lat = prev.rows[1].lat

\* C9 as claimed: grid2lonlat of the id reproduces the zone and the centroid
\* (x, y, lon, lat) of the lonlat2grid result.
C9_IdResolvesToSameTile == TileIdResolved => SameTile

\* the centroid of the tile lonlat2grid returned
PrevCentroid == GeoPoint(prev.rows[1].lon, prev.rows[1].lat)

\* C9 as amended: grid2lonlat of the id reproduces the zone and the centroid
\* provided the centroid of the tile lies in that zone and in no other zone
\* (the tile of a point near the zone boundary may have its centroid outside
\* the zone, or inside a second zone).
C9_IdResolvesToSameTileInside ==
    ( /\ TileIdResolved
      /\ Containing(PrevCentroid) = {ZoneIndex(prev.rows[1].zone)} ) => SameTile

\* an id resolved back to its tile, the centroid being in the zone of the
\* point and across a grid line from the point
C9_Witness ==
    /\ TileIdResolved
    /\ Containing(PrevCentroid) = {ZoneIndex(prev.rows[1].zone)}
    /\ SameTile
    /\ result[1].id = prev.rows[1].id
    /\ prev.point.lon # result[1].lon

----------------------------------------------------------------------------
(* Claims about grid2grid *)

\* the polygon is a square of edge 2560 * 2^k on the lattice of that edge
AlignedSquare(poly) ==
    LET w == poly.maxx - poly.minx
    IN  /\ w = poly.maxy - poly.miny
        /\ w > 0 /\ w % 2560 = 0
        /\ \E k \in 0..(MaxK + 1) : w = 2560 * 2^k
        /\ poly.minx % w = 0 /\ poly.miny % w = 0

\* C8: with min_grid_size = 2560, grid2grid of a grid-aligned square of edge
\* 2560 * 2^k returns exactly (2^k)^2 tiles, and the bounding box of their
\* union is the bounding box of the square.
C8_FinestTilesCoverSquare ==
    ( /\ call.op = "grid2grid"
      /\ min_grid_size = 2560
      /\ AlignedSquare(call.poly) ) =>
        LET n == (call.poly.maxx - call.poly.minx) \div 2560
        IN  /\ Len(result) = n * n
            /\ Bounds({ result[k].geometry : k \in 1..Len(result) }) = call.poly

\* a square of edge 2560 * 4 decomposed into 16 tiles
C8_Witness ==
    /\ call.op = "grid2grid"
    /\ min_grid_size = 2560
    /\ AlignedSquare(call.poly)
    /\ call.poly.maxx - call.poly.minx = 10240
    /\ call.poly.minx > 0
    /\ Len(result) = 16

----------------------------------------------------------------------------
(* Claims about the worker pool of grid2grid *)

\* C11: in grid2grid, under every order in which the workers of the pool
\* start and finish their tests, a land flag that has been collected for the
\* i-th tile is the result of the land-intersection test of the polygon of
\* that i-th tile; and when grid2grid returns, the dataset has as many land
\* flags as tiles, and the flag of every row is the test of that row's own
\* polygon against the land of the zone.
C11_LandFlagsInTileOrder ==
    /\ pool.phase = "map" =>
           /\ Len(pool.slots) = Len(pool.dataset)
           /\ \A i \in 1..Len(pool.slots) :
                  pool.slots[i] # Unset =>
                      pool.slots[i]
                          = <<IntersectsFunc(pool.dataset[i].geometry, pool.land)>>
    /\ pool.phase = "done" =>
           LET land == zone_land[ZoneIndex(call.region_code)]
               n == CeilDiv(call.poly.maxx - call.poly.minx, min_grid_size)
                      * CeilDiv(call.poly.maxy - call.poly.miny, min_grid_size)
           IN  /\ Len(result) = n
               /\ Len(pool.slots) = n
               /\ \A i \in 1..Len(result) :
                      /\ result[i].geometry = pool.dataset[i].geometry
                      /\ result[i].land
                             = IntersectsFunc(result[i].geometry, land)
               /\ result = Grid2Grid(call.poly, call.region_code)

\* grid2grid has returned three or more tiles, some on land and some not,
\* after the result of a tile arrived later than the result of a tile that
\* comes after it in the dataset
C11_Witness ==
    /\ pool.phase = "done"
    /\ pool.reordered
    /\ Len(result) >= 3
    /\ result[1].land # result[Len(result)].land
    /\ \E i \in 1..Len(result) : result[i].land
    /\ \E i \in 1..Len(result) : ~result[i].land

----------------------------------------------------------------------------
(* Claims about the coarse grids of create_init_grid *)

\* create_init_grid has run
Constructed == max_grid_size # 0

\* the bounding box of a zone boundary, and the tile counts along its axes
CoarseNx(zi) ==
    CeilDiv(Bounds(zone_geometry[zi]).maxx - Bounds(zone_geometry[zi]).minx,
            max_grid_size)
CoarseNy(zi) ==
    CeilDiv(Bounds(zone_geometry[zi]).maxy - Bounds(zone_geometry[zi]).miny,
            max_grid_size)

\* the squares of the coarse grid of a zone
CoarseSquares(zi) ==
    { zone_geometry_max_grids[zi][k].geometry :
        k \in 1..Len(zone_geometry_max_grids[zi]) }

\* C12 as claimed: for each zone, the coarse grid built at initialization
\* consists of exactly ceil(width/max_grid_size) * ceil(height/max_grid_size)
\* squares of edge max_grid_size anchored at the minimum corner
\* (x_min, y_min) of the bounding box of the zone boundary, so that the
\* squares together cover that whole bounding box.
C12_CoarseGridAnchoredAtMinCorner ==
    Constructed =>
        \A zi \in Zones :
            LET b == Bounds(zone_geometry[zi])
                m == max_grid_size
            IN  /\ Len(zone_geometry_max_grids[zi]) = CoarseNx(zi) * CoarseNy(zi)
                /\ CoarseSquares(zi)
                      = { Box(b.minx + i * m, b.miny + j * m,
                              b.minx + i * m + m, b.miny + j * m + m) :
                            i \in 0..(CoarseNx(zi) - 1),
                            j \in 0..(CoarseNy(zi) - 1) }
                /\ Inside(b, Bounds(CoarseSquares(zi)))

\* what create_init_grid builds: the same number of squares of edge
\* max_grid_size, anchored at the (0, 0) of the projection of the zone
CoarseGridAnchoredAtOrigin ==
    Constructed =>
        \A zi \in Zones :
            LET m == max_grid_size
            IN  /\ Len(zone_geometry_max_grids[zi]) = CoarseNx(zi) * CoarseNy(zi)
                /\ Cardinality(CoarseSquares(zi)) = CoarseNx(zi) * CoarseNy(zi)
                /\ CoarseSquares(zi)
                      = { Box(i * m, j * m, i * m + m, j * m + m) :
                            i \in 0..(CoarseNx(zi) - 1),
                            j \in 0..(CoarseNy(zi) - 1) }

\* the coarse grid of a zone has several squares and leaves a part of the
\* bounding box of the zone uncovered
CoarseGridLeavesBoxUncovered ==
    /\ Constructed
    /\ \E zi \in Zones :
          /\ Len(zone_geometry_max_grids[zi]) >= 4
          /\ Bounds(zone_geometry[zi]).minx > 0
          /\ ~Inside(Bounds(zone_geometry[zi]), Bounds(CoarseSquares(zi)))

----------------------------------------------------------------------------
(* Claims about the tiles of grid2grid *)

\* the tiles grid2grid returned are squares of the given edge, each reported
\* (x, y) is the centre of its square, neighbours in both axes share an edge,
\* and the tiles cover the bounding box of the polygon
ExactSquares(edge) ==
    LET x_steps == CeilDiv(call.poly.maxx - call.poly.minx, edge)
        y_steps == CeilDiv(call.poly.maxy - call.poly.miny, edge)
    IN  /\ Len(result) = x_steps * y_steps
        /\ \A k \in 1..Len(result) :
               LET g == result[k].geometry
               IN  /\ g.maxx - g.minx = edge
                   /\ g.maxy - g.miny = edge
                   /\ 2 * result[k].x = g.minx + g.maxx
                   /\ 2 * result[k].y = g.miny + g.maxy
                   \* the next tile of the column, and the tile of the next
                   \* column in the same row
                   /\ k % y_steps # 0 =>
                          result[k + 1].geometry.miny = g.maxy
                   /\ k + y_steps <= Len(result) =>
                          result[k + y_steps].geometry.minx = g.maxx
        /\ Inside(call.poly,
                  Bounds({ result[k].geometry : k \in 1..Len(result) }))

\* C13 as claimed: for every positive integer min_grid_size, odd or even,
\* every tile grid2grid returns is a square of edge exactly min_grid_size,
\* its reported (x, y) is the exact centre of that square, and adjacent tiles
\* share an edge, so that the ceil(width/edge) * ceil(height/edge) tiles
\* cover the bounding box of the input polygon with no gaps.
C13_FineTilesExactSquares ==
    pool.phase = "done" => ExactSquares(min_grid_size)

\* the same for the even values of min_grid_size only
FineTilesExactSquaresIfEven ==
    (pool.phase = "done" /\ min_grid_size % 2 = 0) => ExactSquares(min_grid_size)

\* what grid2grid returns for an odd min_grid_size: squares of edge
\* min_grid_size - 1 around the reported centres, a gap of one length unit
\* between neighbours
FineTilesOfOddSizeShrink ==
    (pool.phase = "done" /\ min_grid_size % 2 = 1) =>
        LET y_steps == CeilDiv(call.poly.maxy - call.poly.miny, min_grid_size)
        IN  \A k \in 1..Len(result) :
                LET g == result[k].geometry
                IN  /\ g.maxx - g.minx = min_grid_size - 1
                    /\ g.maxy - g.miny = min_grid_size - 1
                    /\ k % y_steps # 0 =>
                           result[k + 1].geometry.miny = g.maxy + 1
                    /\ k + y_steps <= Len(result) =>
                           result[k + y_steps].geometry.minx = g.maxx + 1

\* grid2grid with an odd min_grid_size has returned several tiles that do
\* not reach the upper bounds of the polygon
OddSizeLeavesGaps ==
    /\ pool.phase = "done"
    /\ min_grid_size % 2 = 1
    /\ Len(result) >= 4
    /\ Bounds({ result[k].geometry : k \in 1..Len(result) }).maxx
          < call.poly.maxx

====
